---- MODULE Spec2Model ----
(***************************************************************************)
(* A model of type-test: the Program object of                             *)
(* src/type_test/program/Program.py, the corpus of                         *)
(* src/type_test/quotes/Quotes.py and the entry point src/main.py.         *)
(*                                                                         *)
(* Two threads of control exist: the main thread, which runs the methods   *)
(* of Program one statement group at a time (mpc is its position, mstack   *)
(* the methods still to run after the current one returns), and the        *)
(* thread of each Timer, which repeatedly sleeps and then runs             *)
(* Program.__timer_callback.  Strings are sequences of character codes.    *)
(*                                                                         *)
(* Spec      is the program of main.py: Program(stdscr).run(), stopped by  *)
(*           a KeyboardInterrupt.                                          *)
(* SpecApi   is a Program object whose public methods are called one       *)
(*           after the other, in any order, by the main thread.            *)
(* SpecInput is a Program object on which restart() and then read_input()  *)
(*           again and again are called, over the widest set of codes.     *)
(* SpecJoin  is a Program object whose timer methods and lock-taking       *)
(*           methods are called in any order, under fair scheduling.       *)
(***************************************************************************)
EXTENDS Integers, Sequences, FiniteSets, TLC

\* ------------------------------------------------------------- bounds
MaxTyped == 2       \* longest TypedBuffer the keyboard produces
MaxTicks == 2       \* timer wake-ups after which a timer's clock stands still
TickLen == 60       \* hundredths of a second that pass during one sleep
MaxTimers == 2      \* Timer objects that exist at the same time
MinCols == 2        \* narrowest terminal
MaxCols == 3        \* widest terminal
MaxRows == 13       \* terminal rows: room for the longest header at MinCols

\* ---------------------------------------------------------- constants
TEXT_POS == <<2, 0>>
HEADER_POS == <<0, 0>>
KEY_BACKSPACE == 263
KEY_RESIZE == 410

\* Colors: the colour pairs, and the attribute of a write that names none.
GREEN == "GREEN"
ERROR == "ERROR"
HEADER == "HEADER"
NORMAL == "NORMAL"

\* Python values that are not plain strings carry their type.
None == [type |-> "NoneType"]
Quote(author, title, text, quote_id) ==
    [type |-> "Quote", author |-> author, title |-> title,
     text |-> text, quote_id |-> quote_id]
Str(s) == [type |-> "str", val |-> s]

\* a == b of Python: two str are equal when their characters are; Quote
\* defines no __eq__, so a Quote equals only itself, and None only None.
PyEq(a, b) ==
    IF a.type = "str" /\ b.type = "str" THEN a.val = b.val
    ELSE IF a.type # b.type THEN FALSE
    ELSE a = b

\* The characters of a selected quote: what render() writes and walks, and
\* what the user is to type. self.selected_quote is the Quote object itself,
\* and its text is the only character sequence it holds.
PhraseText(q) == IF q.type = "Quote" THEN q.text ELSE <<>>

\* ------------------------------------------------------------- corpus
\* "Te" and "t": the texts of the loaded quotes.
CorpusQuotes ==
    << Quote("a1", "t1", <<84, 101>>, 1), Quote("a2", "t2", <<116>>, 2) >>

\* Quotes.__init__: indices in load order, quotes by id.
indices == [k \in 1..Len(CorpusQuotes) |-> CorpusQuotes[k].quote_id]
quotes == [id \in {CorpusQuotes[k].quote_id : k \in 1..Len(CorpusQuotes)} |->
             LET k == CHOOSE j \in 1..Len(CorpusQuotes) :
                         CorpusQuotes[j].quote_id = id
             IN CorpusQuotes[k]]

\* Quotes.random: the values it may return. "Text" under TYPE_TEST_DEBUG.
RandomQuotes(dbg) ==
    IF dbg THEN { Quote("Author", "Title", <<84, 101, 120, 116>>, 1) }
    ELSE { quotes[indices[k]] : k \in 1..Len(indices) }

\* ----------------------------------------------------------- terminal
\* The window takes every write and every cursor position it is given:
\* the errors the terminal library raises are not part of the model.
Timers == 1..MaxTimers
Sizes == { <<MaxRows, w>> : w \in MinCols..MaxCols }
Cells == (TEXT_POS[1]..(MaxRows - 1)) \X (0..(MaxCols - 1))
Blank == <<32, NORMAL>>

\* The cell k characters after pos, in a window w columns wide.
CellAt(pos, k, w) == << pos[1] + ((pos[2] + k) \div w), (pos[2] + k) % w >>

\* stdscr.addstr(y, x, s, attr): s from pos on, wrapping at the right edge.
AddStr(scr, pos, s, attr, w) ==
    [c \in DOMAIN scr |->
        LET k == (c[1] - pos[1]) * w + (c[2] - pos[2])
        IN IF c[2] < w /\ 0 <= k /\ k < Len(s) THEN <<s[k + 1], attr>>
           ELSE scr[c]]

\* stdscr.addch(y, x, ch, attr)
AddCh(scr, y, x, ch, attr) ==
    IF <<y, x>> \in DOMAIN scr THEN [scr EXCEPT ![<<y, x>>] = <<ch, attr>>]
    ELSE scr

\* The window after a resize keeps the cells that are still inside it.
Resized(scr, w) ==
    [c \in DOMAIN scr |-> IF c[2] < w THEN scr[c] ELSE Blank]

VARIABLES
    running, typed, selected_quote, cur_pos, size, timer, stats, time, lock,
    debug, key, stopped,
    mpc, mstack, interrupted,
    cur_y, cur_x, errored, color, zi,
    body, header, termcur,
    tpc, tstop, clock, seconds, millis

progVars == <<running, typed, selected_quote, cur_pos, size, timer, stats, time>>
mainVars == <<mpc, mstack, interrupted>>
renderVars == <<cur_y, cur_x, errored, color, zi>>
termVars == <<body, header, termcur>>
timerVars == <<tpc, tstop, clock, seconds, millis>>
envVars == <<debug, key, stopped>>
vars == <<progVars, lock, envVars, mainVars, renderVars, termVars, timerVars>>

\* The lock is the sequence of its holders: none, or one thread.
\* The main thread is thread 0, the thread of Timer t is thread t.
MainThread == 0
Free == <<>>
HeldBy(th) == <<th>>

\* ------------------------------------------------------------ initial
\* Program.__init__, in a terminal of any of the sizes, with
\* TYPE_TEST_DEBUG set or not; no Timer exists yet.
InitProgram ==
    /\ running = FALSE
    /\ typed = <<>>
    /\ selected_quote = None
    /\ cur_pos = TEXT_POS
    /\ size \in Sizes
    /\ timer = 0
    /\ stats = <<0, 0>>
    /\ time = <<0, 0>>
    /\ lock = Free
    /\ debug \in BOOLEAN
    /\ key = <<0, 0>>
    /\ stopped = FALSE
    /\ interrupted = FALSE
    /\ cur_y = 0 /\ cur_x = 0 /\ errored = FALSE /\ color = NORMAL /\ zi = 0
    /\ body = [c \in Cells |-> Blank]
    /\ header = <<>>
    /\ termcur = <<0, 0>>
    /\ tpc = [t \in Timers |-> "new"]
    /\ tstop = [t \in Timers |-> FALSE]
    /\ clock = [t \in Timers |-> 0]
    /\ seconds = [t \in Timers |-> 0]
    /\ millis = [t \in Timers |-> 0]

\* main(): program = Program(stdscr), about to call program.run()
Init == InitProgram /\ mpc = "main" /\ mstack = <<>>

\* A constructed Program whose methods the main thread calls one by one.
InitApi == InitProgram /\ mpc = "harness" /\ mstack = <<>>

\* ------------------------------------------------------ the main thread
\* The current method returns: the main thread goes on with the next one.
Return == /\ mpc' = Head(mstack)
          /\ mstack' = Tail(mstack)

\* The Timer objects free to stand for a new Timer(callback=...): those
\* never started and those whose thread has exited.
FreshTimers == { t \in Timers : tpc[t] \in {"new", "exited"} }

\* Program.run: restart(), then loop()
Run ==
    /\ mpc = "main"
    /\ mpc' = "restart"
    /\ mstack' = <<"loop", "exit">>
    /\ UNCHANGED <<progVars, lock, envVars, interrupted, renderVars, termVars, timerVars>>

\* restart with self.typed left as it is
RestartKeepTyped ==
    /\ mpc = "restart"
    /\ running' = TRUE
    /\ selected_quote' \in RandomQuotes(debug)
    /\ mpc' = "start_timer"
    /\ mstack' = <<"restart_end">> \o mstack
    /\ UNCHANGED <<typed, cur_pos, size, timer, stats, time, lock, envVars,
                   interrupted, renderVars, termVars, timerVars>>

\* Program.restart, up to its call of start_timer
Restart ==
    /\ mpc = "restart"
    /\ running' = TRUE
    /\ typed' = <<>>
    /\ selected_quote' \in RandomQuotes(debug)
    /\ mpc' = "start_timer"
    /\ mstack' = <<"restart_end">> \o mstack
    /\ UNCHANGED <<cur_pos, size, timer, stats, time, lock, envVars,
                   interrupted, renderVars, termVars, timerVars>>

\* Program.restart returns, start_timer having returned to it
RestartEnd ==
    /\ mpc = "restart_end"
    /\ Return
    /\ UNCHANGED <<progVars, lock, envVars, interrupted, renderVars, termVars, timerVars>>

\* Timer.join of the Program's timer, as start_timer and stop_timer call
\* it: the first step asks the thread to stop, the second waits for its exit.
JoinAsked == tstop[timer]
JoinDone == tpc[timer] = "exited"

\* The Timer created and started by start_timer; stopped tells that
\* stop_timer has returned and no Timer has been started since.
NewTimer ==
    /\ FreshTimers # {}
    /\ LET t == CHOOSE x \in FreshTimers : \A y \in FreshTimers : x <= y
       IN /\ timer' = t
          /\ tpc' = [tpc EXCEPT ![t] = "check"]
          /\ tstop' = [tstop EXCEPT ![t] = FALSE]
          /\ clock' = [clock EXCEPT ![t] = 0]
    /\ stopped' = FALSE

\* start_timer with the join left out
StartTimerNoJoin ==
    /\ mpc = "start_timer"
    /\ NewTimer
    /\ Return
    /\ UNCHANGED <<running, typed, selected_quote, cur_pos, size, stats, time,
                   lock, debug, key, interrupted, renderVars, termVars, seconds, millis>>

\* Program.start_timer: join the timer there is, then create and start one
StartTimer ==
    /\ mpc = "start_timer"
    /\ IF timer # 0 /\ ~JoinAsked
       THEN /\ tstop' = [tstop EXCEPT ![timer] = TRUE]
            /\ UNCHANGED <<timer, tpc, clock, stopped, mpc, mstack>>
       ELSE /\ timer # 0 => JoinDone
            /\ NewTimer
            /\ Return
    /\ UNCHANGED <<running, typed, selected_quote, cur_pos, size, stats, time,
                   lock, debug, key, interrupted, renderVars, termVars, seconds, millis>>

\* stop_timer with the join left out
StopTimerNoJoin ==
    /\ mpc = "stop_timer"
    /\ stopped' = (stopped \/ timer # 0)
    /\ Return
    /\ UNCHANGED <<progVars, lock, debug, key, interrupted, renderVars, termVars,
                   timerVars>>

\* stop_timer that joins the timer inside `with self.lock`
StopTimerLocked ==
    /\ mpc = "stop_timer"
    /\ IF lock # HeldBy(MainThread)
       THEN /\ lock = Free
            /\ lock' = HeldBy(MainThread)
            /\ UNCHANGED <<tstop, stopped, mpc, mstack>>
       ELSE IF timer # 0 /\ ~JoinAsked
       THEN /\ tstop' = [tstop EXCEPT ![timer] = TRUE]
            /\ UNCHANGED <<lock, stopped, mpc, mstack>>
       ELSE /\ timer # 0 => JoinDone
            /\ lock' = Free
            /\ stopped' = (stopped \/ timer # 0)
            /\ Return
            /\ UNCHANGED tstop
    /\ UNCHANGED <<progVars, debug, key, interrupted, renderVars, termVars,
                   tpc, clock, seconds, millis>>

\* Program.stop_timer
StopTimer ==
    /\ mpc = "stop_timer"
    /\ IF timer # 0 /\ ~JoinAsked
       THEN /\ tstop' = [tstop EXCEPT ![timer] = TRUE]
            /\ UNCHANGED <<stopped, mpc, mstack>>
       ELSE /\ timer # 0 => JoinDone
            /\ stopped' = (stopped \/ timer # 0)
            /\ Return
            /\ UNCHANGED tstop
    /\ UNCHANGED <<progVars, lock, debug, key, interrupted, renderVars, termVars,
                   tpc, clock, seconds, millis>>

\* Program.stop, up to its call of stop_timer
Stop ==
    /\ mpc = "stop"
    /\ running' = FALSE
    /\ mpc' = "stop_timer"
    /\ UNCHANGED <<typed, selected_quote, cur_pos, size, timer, stats, time,
                   lock, envVars, mstack, interrupted, renderVars, termVars, timerVars>>

\* check_win that compares the characters and starts a new round on a win
CheckWinRestarts ==
    /\ mpc = "check_win"
    /\ IF typed = PhraseText(selected_quote)
       THEN mpc' = "restart" /\ UNCHANGED mstack
       ELSE Return
    /\ UNCHANGED <<progVars, lock, envVars, interrupted, renderVars, termVars, timerVars>>

\* Program.check_win
CheckWin ==
    /\ mpc = "check_win"
    /\ IF PyEq(selected_quote, Str(typed))
       THEN mpc' = "stop_timer" /\ UNCHANGED mstack
       ELSE Return
    /\ UNCHANGED <<progVars, lock, envVars, interrupted, renderVars, termVars, timerVars>>

\* loop with the win check moved behind the input read
LoopCheckLast ==
    /\ mpc = "loop"
    /\ IF running
       THEN /\ mpc' = "render"
            /\ mstack' = <<"refresh_screen", "read_input", "check_win", "loop">> \o mstack
       ELSE Return
    /\ UNCHANGED <<progVars, lock, envVars, interrupted, renderVars, termVars, timerVars>>

\* Program.loop: one test of `while self.running`
Loop ==
    /\ mpc = "loop"
    /\ IF running
       THEN /\ mpc' = "render"
            /\ mstack' = <<"check_win", "refresh_screen", "read_input", "loop">> \o mstack
       ELSE Return
    /\ UNCHANGED <<progVars, lock, envVars, interrupted, renderVars, termVars, timerVars>>

\* ---------------------------------------------------------- rendering
\* render with `with self.lock` left out
RenderBeginNoLock ==
    /\ mpc = "render"
    /\ cur_y' = TEXT_POS[1]
    /\ cur_x' = TEXT_POS[2]
    /\ errored' = FALSE
    /\ color' = GREEN
    /\ zi' = 1
    /\ body' = AddStr(body, TEXT_POS, PhraseText(selected_quote), NORMAL, size[2])
    /\ termcur' = CellAt(TEXT_POS, Len(PhraseText(selected_quote)), size[2])
    /\ mpc' = "render_walk"
    /\ UNCHANGED <<progVars, lock, envVars, mstack, interrupted, header, timerVars>>

\* Program.render: `with self.lock`, the locals, and the phrase written
\* in the default styling
RenderBegin ==
    /\ mpc = "render"
    /\ lock = Free
    /\ lock' = HeldBy(MainThread)
    /\ cur_y' = TEXT_POS[1]
    /\ cur_x' = TEXT_POS[2]
    /\ errored' = FALSE
    /\ color' = GREEN
    /\ zi' = 1
    /\ body' = AddStr(body, TEXT_POS, PhraseText(selected_quote), NORMAL, size[2])
    /\ termcur' = CellAt(TEXT_POS, Len(PhraseText(selected_quote)), size[2])
    /\ mpc' = "render_walk"
    /\ UNCHANGED <<progVars, envVars, mstack, interrupted, header, timerVars>>

\* zip(self.typed, self.selected_quote) has a pair left for the walk
ZipLen == IF Len(typed) <= Len(PhraseText(selected_quote))
          THEN Len(typed) ELSE Len(PhraseText(selected_quote))

\* Program.render: errored after the pair (t, s) of the walk
WalkErrored(was, t, s) == was \/ t # s

\* The walk that colours every pair by its own comparison alone
RenderWalkNotSticky ==
    /\ mpc = "render_walk"
    /\ zi <= ZipLen
    /\ LET t == typed[zi]
           s == PhraseText(selected_quote)[zi]
           c == IF t # s THEN ERROR ELSE GREEN
       IN /\ errored' = (t # s)
          /\ color' = c
          /\ body' = AddCh(body, cur_y, cur_x, s, c)
          /\ termcur' = CellAt(<<cur_y, cur_x>>, 1, size[2])
    /\ IF cur_x = size[2] - 1
       THEN cur_y' = cur_y + 1 /\ cur_x' = TEXT_POS[2]
       ELSE cur_x' = cur_x + 1 /\ UNCHANGED cur_y
    /\ zi' = zi + 1
    /\ UNCHANGED <<progVars, lock, envVars, mainVars, header, timerVars>>

\* Program.render: one pair of the walk over typed and selected characters
RenderWalk ==
    /\ mpc = "render_walk"
    /\ zi <= ZipLen
    /\ LET t == typed[zi]
           s == PhraseText(selected_quote)[zi]
           e == WalkErrored(errored, t, s)
           c == IF e THEN ERROR ELSE color
       IN /\ errored' = e
          /\ color' = c
          /\ body' = AddCh(body, cur_y, cur_x, s, c)
          /\ termcur' = CellAt(<<cur_y, cur_x>>, 1, size[2])
    /\ IF cur_x = size[2] - 1
       THEN cur_y' = cur_y + 1 /\ cur_x' = TEXT_POS[2]
       ELSE cur_x' = cur_x + 1 /\ UNCHANGED cur_y
    /\ zi' = zi + 1
    /\ UNCHANGED <<progVars, lock, envVars, mainVars, header, timerVars>>

\* Program.render: cur_pos, update_cursor, and the lock released
RenderFinish ==
    /\ mpc = "render_walk"
    /\ zi > ZipLen
    /\ cur_pos' = <<cur_y, cur_x>>
    /\ termcur' = <<cur_y, cur_x>>
    /\ lock' = Free
    /\ cur_y' = 0 /\ cur_x' = 0 /\ errored' = FALSE /\ color' = NORMAL /\ zi' = 0
    /\ Return
    /\ UNCHANGED <<running, typed, selected_quote, size, timer, stats, time,
                   envVars, interrupted, body, header, timerVars>>

\* Program.refresh_screen: `with self.lock`
RefreshAcquire ==
    /\ mpc = "refresh_screen"
    /\ lock = Free
    /\ lock' = HeldBy(MainThread)
    /\ mpc' = "refresh"
    /\ UNCHANGED <<progVars, envVars, mstack, interrupted, renderVars, termVars, timerVars>>

\* Program.refresh_screen: stdscr.refresh(), and the lock released
RefreshFlush ==
    /\ mpc = "refresh"
    /\ lock' = Free
    /\ Return
    /\ UNCHANGED <<progVars, envVars, interrupted, renderVars, termVars, timerVars>>

\* -------------------------------------------------------------- input
\* What re.split(r"\s+", s) has as its length: one more than the runs of
\* whitespace in s.
Whitespace == {9, 10, 11, 12, 13, 28, 29, 30, 31, 32}
SplitLen(s) ==
    1 + Cardinality({ k \in 1..Len(s) :
                        /\ s[k] \in Whitespace
                        /\ (k = 1 \/ s[k - 1] \notin Whitespace) })

\* Program.update_stats
UpdatedStats(s) == << SplitLen(s), Len(s) >>

\* self.typed[:-1]
ButLast(s) == SubSeq(s, 1, Len(s) - 1)

\* The codes getch() hands out to the input dispatcher: the two keys,
\* space, T, t, ~, and the codes next to the printable range.
InputCodes == {KEY_BACKSPACE, KEY_RESIZE, 32, 84, 116, 126, 31, 127}

\* The codes getch() hands out to the program of main.py.
LoopCodes == {KEY_BACKSPACE, KEY_RESIZE, 84, 101, 116, 127}

\* The codes getch() hands out when the methods are called one by one.
ApiCodes == {KEY_BACKSPACE, KEY_RESIZE, 116, 127}

\* stdscr.getmaxyx() when read_input handles the code c
SizesOn(c) == IF c = KEY_RESIZE THEN Sizes ELSE {size}

\* read_input whose erase takes the first character away
TypedAfterEraseFirst(c) ==
    IF c = KEY_BACKSPACE THEN (IF typed = <<>> THEN typed ELSE Tail(typed))
    ELSE IF c = KEY_RESIZE THEN typed
    ELSE IF 32 <= c /\ c <= 126 THEN typed \o <<c>>
    ELSE typed

\* read_input that appends every code that is not one of the two keys
TypedAfterAppendsAll(c) ==
    IF c = KEY_BACKSPACE THEN ButLast(typed)
    ELSE IF c = KEY_RESIZE THEN typed
    ELSE typed \o <<c>>

\* Program.read_input: self.typed after the code c
TypedAfter(c) ==
    IF c = KEY_BACKSPACE THEN ButLast(typed)
    ELSE IF c = KEY_RESIZE THEN typed
    ELSE IF 32 <= c /\ c <= 126 THEN typed \o <<c>>
    ELSE typed

\* Program.read_input on the code c of getch(); a resize comes with the new
\* size sz of the terminal. update_stats follows every code.
ReadInputOn(c, sz) ==
    /\ mpc = "read_input"
    /\ (32 <= c /\ c <= 126) => Len(typed) < MaxTyped
    /\ typed' = TypedAfter(c)
    /\ size' = sz
    /\ body' = IF c = KEY_RESIZE THEN Resized(body, sz[2]) ELSE body
    /\ stats' = UpdatedStats(typed')
    /\ Return
    /\ UNCHANGED <<running, selected_quote, cur_pos, timer, time, lock, debug,
                   stopped, interrupted, renderVars, header, termcur, timerVars>>

\* read_input in the program of main.py
ReadInput ==
    \E c \in LoopCodes : \E sz \in SizesOn(c) :
        ReadInputOn(c, sz) /\ UNCHANGED key

\* read_input called on its own
ReadInputApi ==
    \E c \in ApiCodes : \E sz \in SizesOn(c) :
        ReadInputOn(c, sz) /\ UNCHANGED key

\* read_input called on its own; key keeps the code it read and the length
\* typed had when it read it
ReadInputKey ==
    \E c \in InputCodes : \E sz \in SizesOn(c) :
        ReadInputOn(c, sz) /\ key' = <<c, Len(typed)>>

\* ------------------------------------------------------- main.py, harness
\* The main thread is inside program.run().
InRun == mpc \notin {"main", "exit", "harness"}

\* main(): a KeyboardInterrupt raised in program.run() unwinds it (a lock
\* held by a `with` is released) and program.stop() is called.
KeyboardInterrupt ==
    /\ InRun
    /\ ~interrupted
    /\ interrupted' = TRUE
    /\ lock' = IF lock = HeldBy(MainThread) THEN Free ELSE lock
    /\ cur_y' = 0 /\ cur_x' = 0 /\ errored' = FALSE /\ color' = NORMAL /\ zi' = 0
    /\ mpc' = "stop"
    /\ mstack' = <<"exit">>
    /\ UNCHANGED <<progVars, envVars, termVars, timerVars>>

\* The methods of Program a caller may call on the constructed object.
ApiMethods == {"restart", "start_timer", "stop_timer", "stop", "render",
               "check_win", "refresh_screen", "read_input"}

\* One call of a method; render needs a selected quote to draw.
Harness ==
    /\ mpc = "harness"
    /\ \E m \in ApiMethods :
          /\ m = "render" => selected_quote # None
          /\ mpc' = m
    /\ mstack' = <<"harness">>
    /\ UNCHANGED <<progVars, lock, envVars, interrupted, renderVars, termVars, timerVars>>

\* ------------------------------------------------------ the timer thread
\* Timer.get_time of Timer t: the hundredths of a second since its start.
GetTime(t) == clock[t]

\* Timer.run: the thread ends once it has been asked to stop.
TimerCheck(t) ==
    /\ tpc[t] = "check"
    /\ tpc' = [tpc EXCEPT ![t] = IF tstop[t] THEN "exited" ELSE "sleep"]
    /\ UNCHANGED <<progVars, lock, envVars, mainVars, renderVars, termVars,
                   tstop, clock, seconds, millis>>

\* Timer.run: one sleep, after which the callback is called.
TimerSleep(t) ==
    /\ tpc[t] = "sleep"
    /\ clock' = [clock EXCEPT ![t] =
                    IF clock[t] < MaxTicks * TickLen THEN clock[t] + TickLen
                    ELSE clock[t]]
    /\ tpc' = [tpc EXCEPT ![t] = "cb_read"]
    /\ UNCHANGED <<progVars, lock, envVars, mainVars, renderVars, termVars,
                   tstop, seconds, millis>>

\* Program.__timer_callback: seconds and millis, from self.time and then
\* from the elapsed time of self.timer
CallbackRead(t) ==
    /\ tpc[t] = "cb_read"
    /\ LET seconds0 == time[1]
           millis0 == time[2]
           elapsed == GetTime(timer)
           secs == elapsed \div 100
       IN IF timer # 0
          THEN /\ seconds' = [seconds EXCEPT ![t] = secs]
               /\ millis' = [millis EXCEPT ![t] = elapsed - secs * 100]
          ELSE /\ seconds' = [seconds EXCEPT ![t] = seconds0]
               /\ millis' = [millis EXCEPT ![t] = millis0]
    /\ tpc' = [tpc EXCEPT ![t] = "cb_write"]
    /\ UNCHANGED <<progVars, lock, envVars, mainVars, renderVars, termVars,
                   tstop, clock>>

\* Program.__timer_callback: self.time = (seconds, millis)
CallbackWrite(t) ==
    /\ tpc[t] = "cb_write"
    /\ time' = <<seconds[t], millis[t]>>
    /\ seconds' = [seconds EXCEPT ![t] = 0]
    /\ millis' = [millis EXCEPT ![t] = 0]
    /\ tpc' = [tpc EXCEPT ![t] = "header"]
    /\ UNCHANGED <<running, typed, selected_quote, cur_pos, size, timer, stats,
                   lock, envVars, mainVars, renderVars, termVars, tstop, clock>>

\* Program.get_stats: (wpm, cps), each a fraction <<numerator, denominator>>
GetStats ==
    LET secs == time[1]
    IN IF secs > 0 THEN << <<stats[1] * 60, secs>>, <<stats[2], secs>> >>
       ELSE << <<0, 1>>, <<0, 1>> >>

\* str(n) of a natural number: its decimal digits.
RECURSIVE Digits(_)
Digits(n) == IF n < 10 THEN <<48 + n>>
             ELSE Digits(n \div 10) \o <<48 + (n % 10)>>

\* "{:02d}".format(n)
Fmt02d(n) == IF n < 10 THEN <<48>> \o Digits(n) ELSE Digits(n)

\* "{:.2f}".format(x) of the fraction x = <<numerator, denominator>>: x
\* rounded to hundredths, two digits after the point.
Fmt2f(x) ==
    LET h == (200 * x[1] + x[2]) \div (2 * x[2])
    IN Digits(h \div 100) \o <<46>> \o Fmt02d(h % 100)

\* Program.render_header: header_string,
\* "{:.2f} wpm {:.2f} cps {}.{:02d}s".format(wpm, cps, seconds, millis)
HeaderString(wpm, cps, secs, ms) ==
    Fmt2f(wpm) \o <<32, 119, 112, 109, 32>> \o
    Fmt2f(cps) \o <<32, 99, 112, 115, 32>> \o
    Digits(secs) \o <<46>> \o Fmt02d(ms) \o <<115>>

\* Program.render_header: `with self.lock`
HeaderAcquire(t) ==
    /\ tpc[t] = "header"
    /\ lock = Free
    /\ lock' = HeldBy(t)
    /\ tpc' = [tpc EXCEPT ![t] = "header_draw"]
    /\ UNCHANGED <<progVars, envVars, mainVars, renderVars, termVars,
                   tstop, clock, seconds, millis>>

\* The cells a string of length n covers when addstr writes it from pos on
\* in a window w columns wide.
StrCells(pos, n, w) == { CellAt(pos, k, w) : k \in 0..(n - 1) }

\* Program.render_header: the header written from HEADER_POS on, the cursor
\* put back, and the lock released. header keeps the four values that
\* header_string shows.
HeaderDraw(t) ==
    /\ tpc[t] = "header_draw"
    /\ header' = << GetStats[1], GetStats[2], time[1], time[2] >>
    /\ termcur' = cur_pos
    /\ lock' = Free
    /\ tpc' = [tpc EXCEPT ![t] = "refresh_screen"]
    /\ UNCHANGED <<progVars, envVars, mainVars, renderVars, body,
                   tstop, clock, seconds, millis>>

\* The cells that addstr covers when it writes the header_string of the
\* values h in a window w columns wide.
HeaderCells(h, w) ==
    StrCells(HEADER_POS, Len(HeaderString(h[1], h[2], h[3], h[4])), w)

\* Program.refresh_screen, called by the callback: `with self.lock`
TimerRefreshAcquire(t) ==
    /\ tpc[t] = "refresh_screen"
    /\ lock = Free
    /\ lock' = HeldBy(t)
    /\ tpc' = [tpc EXCEPT ![t] = "refresh"]
    /\ UNCHANGED <<progVars, envVars, mainVars, renderVars, termVars,
                   tstop, clock, seconds, millis>>

\* Program.refresh_screen, called by the callback: stdscr.refresh(), the
\* lock released, and the callback returns
TimerRefreshFlush(t) ==
    /\ tpc[t] = "refresh"
    /\ lock' = Free
    /\ tpc' = [tpc EXCEPT ![t] = "check"]
    /\ UNCHANGED <<progVars, envVars, mainVars, renderVars, termVars,
                   tstop, clock, seconds, millis>>

TimerStep(t) ==
    \/ TimerCheck(t)
    \/ TimerSleep(t)
    \/ CallbackRead(t)
    \/ CallbackWrite(t)
    \/ HeaderAcquire(t)
    \/ HeaderDraw(t)
    \/ TimerRefreshAcquire(t)
    \/ TimerRefreshFlush(t)

\* The methods of Program, run by the main thread.
MethodStep ==
    \/ Restart
    \/ RestartEnd
    \/ StartTimer
    \/ StopTimer
    \/ Stop
    \/ CheckWin
    \/ RenderBegin
    \/ RenderWalk
    \/ RenderFinish
    \/ RefreshAcquire
    \/ RefreshFlush

Next ==
    \/ Run
    \/ Loop
    \/ KeyboardInterrupt
    \/ MethodStep
    \/ ReadInput
    \/ \E t \in Timers : TimerStep(t)

NextApi ==
    \/ Harness
    \/ MethodStep
    \/ ReadInputApi
    \/ \E t \in Timers : TimerStep(t)

Spec == Init /\ [][Next]_vars

SpecApi == InitApi /\ [][NextApi]_vars

\* The input dispatcher: restart() and then read_input() again and again,
\* each code that getch() returned kept in key.
HarnessInput ==
    /\ mpc = "harness"
    /\ mpc' = IF selected_quote = None THEN "restart" ELSE "read_input"
    /\ mstack' = <<"harness">>
    /\ UNCHANGED <<progVars, lock, envVars, interrupted, renderVars, termVars, timerVars>>

NextInput ==
    \/ HarnessInput
    \/ Restart
    \/ RestartEnd
    \/ StartTimer
    \/ ReadInputKey
    \/ \E t \in Timers : TimerStep(t)

SpecInput == InitApi /\ [][NextInput]_vars

\* The timer and the lock: the methods that start and stop the timer and
\* those that take the lock, called one after the other in any order while
\* TypedBuffer is empty (the walk of render has no pair to draw).
JoinMethods == {"restart", "start_timer", "stop_timer", "stop", "render",
                "check_win", "refresh_screen"}

HarnessJoin ==
    /\ mpc = "harness"
    /\ \E m \in JoinMethods :
          /\ m = "render" => selected_quote # None
          /\ mpc' = m
    /\ mstack' = <<"harness">>
    /\ UNCHANGED <<progVars, lock, envVars, interrupted, renderVars, termVars, timerVars>>

\* The statements of the methods, as the main thread runs them.
MainStep ==
    \/ Restart
    \/ RestartEnd
    \/ StartTimer
    \/ StopTimer
    \/ Stop
    \/ CheckWin
    \/ RenderBegin
    \/ RenderFinish
    \/ RefreshAcquire
    \/ RefreshFlush

NextJoin ==
    \/ HarnessJoin
    \/ MainStep
    \/ \E t \in Timers : TimerStep(t)

\* Scheduling: a thread that can run, and stays able to, runs. The caller
\* is free to stop calling.
Fairness ==
    /\ WF_vars(MainStep)
    /\ \A t \in Timers : WF_vars(TimerStep(t))

SpecJoin == InitApi /\ [][NextJoin]_vars /\ Fairness

\* ============================================================== claims
\* The phrase on the screen and the threads of the program.
Phrase == PhraseText(selected_quote)
LiveTimers == { t \in Timers : tpc[t] \notin {"new", "exited"} }
BodyRendering == mpc = "render_walk"
HeaderRendering(t) == tpc[t] = "header_draw"

\* C1: check_win() goes on to stop the timer if and only if TypedBuffer
\* equals the Phrase character for character.
C1_WinIffEqual ==
    [][CheckWin => ((mpc' = "stop_timer") <=> (typed = Phrase))]_vars

C3_NoInterleaving ==
    /\ \A t \in Timers : ~(BodyRendering /\ HeaderRendering(t))
    /\ \A t, u \in Timers : (HeaderRendering(t) /\ HeaderRendering(u)) => t = u
    /\ mpc = "refresh" => \A t \in Timers : ~HeaderRendering(t)
    /\ \A t \in Timers :
          tpc[t] = "refresh" =>
              /\ ~BodyRendering
              /\ \A u \in Timers : ~HeaderRendering(u)

\* C3 witness: the body render has drawn a character and has more to do
\* while the callback waits for the lock to render the header.
C3_Witness ==
    /\ BodyRendering
    /\ zi = 2
    /\ zi <= ZipLen
    /\ \E t \in Timers : tpc[t] = "header"

\* C4: a thread about to read or write self.time or self.cur_pos holds the
\* render lock.
C4_AccessUnderLock ==
    /\ \A t \in Timers :
          tpc[t] \in {"cb_read", "cb_write", "header_draw"} => lock = HeldBy(t)
    /\ BodyRendering => lock = HeldBy(MainThread)

\* The positions of the main thread at which a method reads or writes
\* self.time: none (render_header and get_stats run in the callback only).
MainTimeAccess == {}
TimeAccess(th) ==
    IF th = MainThread THEN mpc \in MainTimeAccess
    ELSE tpc[th] \in {"cb_read", "cb_write", "header_draw"}
TimeWrite(th) == th # MainThread /\ tpc[th] = "cb_write"

\* C5: no two threads are at self.time at once with one of them writing.
C5_NoTimeRace ==
    \A a, b \in Timers \cup {MainThread} :
        (a # b /\ TimeWrite(a)) => ~TimeAccess(b)

\* C5 witness: the callback is writing self.time in the middle of a body
\* render of the main thread.
C5_Witness ==
    /\ BodyRendering
    /\ \E t \in Timers : TimeWrite(t)

\* C6: every live timer thread is the one of self.timer, and a timer that
\* was started and not asked to stop is live: exactly one is.
C6_OneTimer ==
    /\ LiveTimers \subseteq {timer}
    /\ Cardinality(LiveTimers) <= 1
    /\ (timer # 0 /\ ~tstop[timer]) => LiveTimers = {timer}

\* C6 witness: restart() has returned with a new timer that has not ticked
\* yet, after a timer that had.
C6_Witness ==
    /\ mpc = "restart_end"
    /\ time # <<0, 0>>
    /\ clock[timer] = 0
    /\ LiveTimers = {timer}

\* C7: once stop_timer() has returned, and until a timer is started, no
\* timer thread is alive to run the callback.
C7_NoCallbackAfterStop == stopped => LiveTimers = {}

\* C7 witness: stop_timer() has returned on a timer that had ticked.
C7_Witness ==
    /\ stopped
    /\ mpc = "harness"
    /\ time # <<0, 0>>

\* C8: when restart() returns, ElapsedTime is zero, running is true and a
\* timer runs.
C8_RestartResetsTime ==
    [][(StartTimer /\ mpc' = "restart_end") =>
          /\ time' = <<0, 0>>
          /\ running'
          /\ timer' \in LiveTimers']_vars

C10_Erase ==
    [][(key'[1] = KEY_BACKSPACE /\ mpc = "read_input" /\ ReadInputKey) =>
          /\ Len(typed') = (IF Len(typed) = 0 THEN 0 ELSE Len(typed) - 1)
          /\ \A i \in 1..Len(typed') : typed'[i] = typed[i]]_vars

\* C10 witness: an erase was read with TypedBuffer empty, and left it so.
C10_Witness ==
    /\ key = <<KEY_BACKSPACE, 0>>
    /\ typed = <<>>
    /\ stats = <<1, 0>>

\* C11: one input event with a code from 32 to 126 puts exactly that
\* character at the end of TypedBuffer; a resize changes nothing of the
\* Program but ScreenGeometry; a code that is neither erase nor resize nor
\* in 32..126 leaves TypedBuffer, Phrase, ScreenGeometry and running as
\* they are.
C11_InputFrame ==
    [][(mpc = "read_input" /\ ReadInputKey) =>
          LET c == key'[1]
          IN /\ (32 <= c /\ c <= 126) => typed' = typed \o <<c>>
             /\ c = KEY_RESIZE =>
                   UNCHANGED <<running, typed, selected_quote, cur_pos,
                               timer, stats, time>>
             /\ (c # KEY_BACKSPACE /\ c # KEY_RESIZE /\ ~(32 <= c /\ c <= 126)) =>
                   UNCHANGED <<typed, selected_quote, size, running>>]_vars

\* The whitespace-separated words of a string: its runs of characters that
\* are not whitespace.
Words(s) ==
    Cardinality({ k \in 1..Len(s) :
                    /\ s[k] \notin Whitespace
                    /\ (k = 1 \/ s[k - 1] \in Whitespace) })

\* C12: the header shows wpm = 0 and cps = 0 while the whole seconds s of
\* ElapsedTime are 0, and otherwise cps = len(TypedBuffer) / s and
\* wpm = (words of TypedBuffer) / s * 60.
C12_HeaderStats ==
    [][\A t \in Timers :
          HeaderDraw(t) =>
              LET s == time[1]
                  wpm == header'[1]
                  cps == header'[2]
              IN IF s = 0 THEN wpm[1] = 0 /\ cps[1] = 0
                 ELSE /\ cps[1] * s = Len(typed) * cps[2]
                      /\ wpm[1] * s = Words(typed) * 60 * wpm[2]]_vars

\* C13: an interrupt in program.run() is followed by stop(); once stop()
\* has returned, running is false, the timer thread has exited, and
\* neither thread can take a step any more: no body render, header
\* render, flush or input read.
C13_StoppedTerminal ==
    /\ interrupted => mpc \in {"stop", "stop_timer", "exit"}
    /\ mpc = "exit" =>
          /\ interrupted
          /\ ~running
          /\ LiveTimers = {}
          /\ lock = Free
          /\ ~ENABLED Next

\* C13 witness: stop() has returned after an interrupt that came with
\* characters typed and a header drawn, and the timer thread has exited.
C13_Witness ==
    /\ mpc = "exit"
    /\ typed # <<>>
    /\ header # <<>>
    /\ timer # 0
    /\ tpc[timer] = "exited"

\* C14: a step that changes the Phrase is a step of restart(); a win check
\* leaves the Phrase and the timer as they are and goes on to stop_timer
\* or returns; restart() is entered from run() only and start_timer from
\* restart() only, so nothing draws a Phrase or starts a timer after a
\* win check.
C14_PhraseOnlyByRestart ==
    [][/\ selected_quote' # selected_quote => Restart
       /\ CheckWin => /\ UNCHANGED <<selected_quote, timer, tpc>>
                      /\ mpc' \in {"stop_timer", Head(mstack)}
       /\ mpc' = "restart" => Run
       /\ mpc' = "start_timer" => Restart]_vars

\* C14 witness: the win check has run on a TypedBuffer that has the
\* characters of the Phrase, after a header render, and the timer of the
\* round is still the one that runs.
C14_Witness ==
    /\ mpc = "refresh_screen"
    /\ ~interrupted
    /\ Phrase # <<>>
    /\ typed = Phrase
    /\ header # <<>>
    /\ LiveTimers = {timer}

\* C15: when render() finishes, in a window W columns wide and with n
\* characters in TypedBuffer, the CursorPosition it records is
\* (row of TEXT_POS + n div W, n mod W).
C15_CursorAfterRender ==
    [][RenderFinish =>
          cur_pos' = << TEXT_POS[1] + (Len(typed) \div size[2]),
                        Len(typed) % size[2] >>]_vars

\* C16: the main thread enters the body render from the loop test with
\* running true, the win check from the end of the body render, the flush
\* from the win check (or from the stop_timer it called), the input read
\* from the flush, and the loop test from the input read; from the end of
\* the body render up to the input read nothing changes TypedBuffer, the
\* Phrase or ScreenGeometry, so that while the main thread waits for input
\* the CursorPosition is the one a body render of the current TypedBuffer
\* and Phrase records.
C16_LoopOrder ==
    [][/\ (mpc' = "render" /\ mpc # "render") => (Loop /\ running)
       /\ (mpc' = "check_win" /\ mpc # "check_win") => RenderFinish
       /\ (mpc' = "refresh_screen" /\ mpc # "refresh_screen") =>
             (CheckWin \/ (mpc = "stop_timer" /\ StopTimer))
       /\ (mpc' = "read_input" /\ mpc # "read_input") => RefreshFlush
       /\ (mpc' = "loop" /\ mpc # "loop") => (mpc \in {"read_input", "restart_end"})
       /\ typed' # typed => (mpc = "read_input" /\ mpc' = "loop")
       /\ mpc \in {"check_win", "stop_timer", "refresh_screen", "refresh"} =>
             UNCHANGED <<typed, selected_quote, size>>
       /\ mpc' = "read_input" =>
             cur_pos' = CellAt(TEXT_POS, ZipLen', size'[2])]_vars

\* C16 witness: the main thread waits for input with two characters typed,
\* the second of them drawn in the last column, and a header drawn.
C16_Witness ==
    /\ mpc = "read_input"
    /\ Len(typed) = 2
    /\ cur_pos = <<TEXT_POS[1] + 1, 0>>
    /\ header # <<>>

\* C17: the main thread does not hold the render lock while it is in
\* stop_timer(), start_timer() or stop(), where it waits for the timer
\* thread to exit; and every call of stop_timer(), start_timer() and stop()
\* returns.
C17_NoDeadlock ==
    /\ [](mpc \in {"stop_timer", "start_timer", "stop"} =>
            lock # HeldBy(MainThread))
    /\ (mpc = "stop_timer") ~> (mpc = "harness")
    /\ (mpc = "start_timer") ~> (mpc \in {"restart_end", "harness"})
    /\ (mpc = "stop") ~> (mpc = "harness")

\* C17 witness: the main thread waits in stop_timer() for a timer thread
\* that has been asked to stop while its callback holds the lock in the
\* header render.
C17_Witness ==
    /\ mpc = "stop_timer"
    /\ timer # 0
    /\ tstop[timer]
    /\ tpc[timer] = "header_draw"
    /\ lock = HeldBy(timer)

C19_CallbackFrame ==
    [][\A t \in Timers :
          TimerStep(t) =>
              /\ UNCHANGED <<typed, selected_quote, stats, cur_pos, size, running>>
              /\ HeaderDraw(t) =>
                    \A c \in HeaderCells(header', size[2]) :
                        c[1] < TEXT_POS[1]]_vars

\* C20: TypedBuffer holds nothing but characters with codes from 32 to 126.
C20_TypedPrintable ==
    \A i \in 1..Len(typed) : 32 <= typed[i] /\ typed[i] <= 126

\* C20 witness: the code 127, just past the range, was read after the
\* characters with the first and the last code of the range were typed.
C20_Witness ==
    /\ key = <<127, 2>>
    /\ typed = <<32, 126>>

====
